---- MODULE Spec2Model ----
(***************************************************************************)
(* Model of the research pipeline of ai-data-scientist-agent:              *)
(*   DataScraper.scrape -> DataAnalyzer.analyze -> ReportGenerator.generate *)
(* driven by main(), and of direct calls of the three operations with      *)
(* well-formed and malformed arguments.                                    *)
(*                                                                         *)
(* Python values are tagged records:                                       *)
(*   [k |-> "null"]                      None                              *)
(*   [k |-> "str",  s |-> "..."]         a str                             *)
(*   [k |-> "num",  n |-> 3]             an int                            *)
(*   [k |-> "list", items |-> <<...>>]   a list                            *)
(*   [k |-> "dict", fields |-> <<[key |-> "..", val |-> ..], ...>>]         *)
(*                                       a dict, in insertion order        *)
(* A built string (context, report) is a sequence of pieces, concatenation *)
(* is \o.  An operation that may raise yields [ok |-> TRUE, value |-> v]   *)
(* or [ok |-> FALSE, exc |-> "..."]; exc is the text of str(e).            *)
(*                                                                         *)
(* Two specifications.  ProcessSpec is the program as its files stand:     *)
(* report_generator.py does not compile (its last line, 226, carries a `}` *)
(* after the closing quotes), so running main.py ends in its imports, and  *)
(* only the scraper and the analyzer can be called.  Spec is the program   *)
(* with the three classes loaded: the methods of ReportGenerator are taken *)
(* as their bodies read, main() runs, and each operation can be called     *)
(* directly.                                                               *)
(***************************************************************************)
EXTENDS Integers, Sequences, FiniteSets, TLC

VARIABLES
    pc,        \* position of the caller: main()'s steps, or a direct call
    query,     \* main(): search_query
    data,      \* main(): the record returned by scraper.scrape
    scrArgs,   \* arguments of the last DataScraper.scrape call, with the
               \* outcome of its Wikipedia request
    scrOut,    \* outcome of the last DataScraper.scrape call
    apc,       \* position inside DataAnalyzer.analyze
    anData,    \* analyze: its argument `data`
    context,   \* analyze: the context built by _prepare_context
    insights,  \* analyze: the record under construction
    calls,     \* log of backend invocations: <<[dim, ok, text], ...>>
    anOut,     \* outcome of DataAnalyzer.analyze
    stub,      \* a deterministic backend: the prompts answered so far, each
               \* with its answer
    first,     \* the first of two analyze calls on one argument: its
               \* context, its backend invocations and its outcome
    genArgs,   \* arguments of the last ReportGenerator.generate call
    genOut,    \* outcome of ReportGenerator.generate
    saved,     \* main(): what was written to the report file
    exitCode,  \* main(): its return value, -1 while running
    clock      \* datetime.now(): a logical clock

vars == <<pc, query, data, scrArgs, scrOut, apc, anData, context, insights, calls,
          anOut, stub, first, genArgs, genOut, saved, exitCode, clock>>

----------------------------------------------------------------------------
(* Python values *)

Null == [k |-> "null"]

Str(s) == [k |-> "str", s |-> s]

Num(n) == [k |-> "num", n |-> n]

List(items) == [k |-> "list", items |-> items]

Dict(fields) == [k |-> "dict", fields |-> fields]

Field(key, val) == [key |-> key, val |-> val]

EmptyDict == Dict(<<>>)

\* Python truthiness: what `if x:` and `if not x:` test.
Truthy(v) ==
    CASE v.k = "null" -> FALSE
      [] v.k = "str"  -> v.s # ""
      [] v.k = "num"  -> v.n # 0
      [] v.k = "list" -> Len(v.items) > 0
      [] v.k = "dict" -> Len(v.fields) > 0

\* `key in d` for a dict d.
DictHas(d, key) == \E i \in 1..Len(d.fields) : d.fields[i].key = key

\* d.get(key, default) for a dict d.
DictGet(d, key, default) ==
    IF DictHas(d, key)
    THEN d.fields[CHOOSE i \in 1..Len(d.fields) : d.fields[i].key = key].val
    ELSE default

\* d[key] = val: replaces in place, or appends in insertion order.
DictSet(d, key, val) ==
    IF DictHas(d, key)
    THEN Dict([i \in 1..Len(d.fields) |->
                 IF d.fields[i].key = key THEN Field(key, val) ELSE d.fields[i]])
    ELSE Dict(Append(d.fields, Field(key, val)))

Keys(d) == {d.fields[i].key : i \in 1..Len(d.fields)}

\* obj.get(key, default): AttributeError unless obj is a dict.
Get(obj, key, default) ==
    IF obj.k = "dict"
    THEN [ok |-> TRUE, value |-> DictGet(obj, key, default)]
    ELSE [ok |-> FALSE, exc |-> "object has no attribute 'get'"]

\* len(v): TypeError for None and int.
PyLen(v) ==
    CASE v.k = "list" -> [ok |-> TRUE, value |-> Len(v.items)]
      [] v.k = "dict" -> [ok |-> TRUE, value |-> Len(v.fields)]
      [] v.k \in {"null", "num"} ->
            [ok |-> FALSE, exc |-> "object has no len()"]

Returned(v) == [kind |-> "returned", value |-> v]

\* F(v), with v evaluated once: a local variable holding a value.
Bind(v, F(_)) == CHOOSE r \in {F(x) : x \in {v}} : TRUE

Raised(exc) == [kind |-> "raised", exc |-> exc]

NoOutcome == [kind |-> "none"]

----------------------------------------------------------------------------
(* DataScraper *)

HttpOutcomes == {"exception", "status_404", "no_content_div", "ok"}

\* _scrape_wikipedia: the content, or None on any failure.  query.replace
\* raises for a query that is not a str; the exception is caught.
_scrape_wikipedia(q, http) ==
    IF q.k = "str" /\ http = "ok"
    THEN Dict(<<Field("title", q),
                Field("content", Str("first five paragraphs"))>>)
    ELSE Null

\* _scrape_google_search: three canned results; query.lower() raises for a
\* query that is not a str, and the handler then returns [].
_scrape_google_search(q) ==
    IF q.k = "str"
    THEN List(<<Dict(<<Field("title", Str("Official Information")),
                       Field("snippet", q)>>),
                Dict(<<Field("title", Str("LinkedIn Profile")),
                       Field("snippet", q)>>),
                Dict(<<Field("title", Str("Recent News")),
                       Field("snippet", q)>>)>>)
    ELSE List(<<>>)

\* _scrape_company_info: a canned record; nothing in it can raise.
_scrape_company_info(q) ==
    Dict(<<Field("name", q),
           Field("founded", Str("Unknown")),
           Field("industry", Str("Technology")),
           Field("employees", Str("Unknown")),
           Field("revenue", Str("Unknown")),
           Field("description", q)>>)

\* AddSource with the name appended outside the `if`: a source is listed
\* whether or not it delivered content.
AddSourceNameAlways(d, name, key, content) ==
    LET listed == DictSet(d, "sources",
                          List(Append(DictGet(d, "sources", Null).items, Str(name))))
    IN  IF Truthy(content)
        THEN DictSet(listed, "raw_content",
                     DictSet(DictGet(d, "raw_content", Null), key, content))
        ELSE listed

\* One `if x_data:` block of scrape: append the name, store the content.
AddSource(d, name, key, content) ==
    IF Truthy(content)
    THEN DictSet(
             DictSet(d, "sources",
                     List(Append(DictGet(d, "sources", Null).items, Str(name)))),
             "raw_content",
             DictSet(DictGet(d, "raw_content", Null), key, content))
    ELSE d

\* DataScraper.scrape(query), with the outcome of the Wikipedia request and
\* the reading of the clock as inputs.
scrape(q, http, now) ==
    LET d0 == Dict(<<Field("query", q),
                     Field("timestamp", Num(now)),
                     Field("sources", List(<<>>)),
                     Field("raw_content", EmptyDict)>>)
    IN  Bind(AddSource(d0, "Wikipedia", "wikipedia", _scrape_wikipedia(q, http)),
          LAMBDA d1 :
        Bind(AddSource(d1, "Google Search", "google", _scrape_google_search(q)),
          LAMBDA d2 :
        AddSource(d2, "Company Database", "company", _scrape_company_info(q))))

----------------------------------------------------------------------------
(* The generative backend: model.generate_content(prompt) returns a       *)
(* response with a text, or raises.                                        *)

TextNarrative == "Revenue has grown steadily."

TextEmpty == ""

TextEmptyObject == "{}"

TextFinancial == "{\"revenue\": \"growing\", \"investment_rating\": \"buy\"}"

TextSwot == "{\"strengths\": [\"brand\"], \"threats\": \"rivals\"}"

TextMixed == "{\"summary\": \"stable\", \"revenue\": \"growing\"}"

TextNull == "null"

TextNumber == "42"

AllTexts == <<TextNarrative, TextEmpty, TextEmptyObject, TextFinancial,
              TextSwot, TextMixed, TextNull, TextNumber>>

\* How many of AllTexts the backend may answer a structured prompt with.
NumTexts == 7

\* How many of AllTexts the backend may answer a narrative prompt with.
NumNarrativeTexts == 2

FirstTexts(n) == {AllTexts[i] : i \in 1..(IF n < Len(AllTexts) THEN n ELSE Len(AllTexts))}

Failure == [ok |-> FALSE, text |-> ""]

Response(t) == [ok |-> TRUE, text |-> t]

\* json.loads(text) on the texts above: the parsed value, or a ValueError.
json_loads(text) ==
    CASE text = TextEmptyObject -> [ok |-> TRUE, value |-> EmptyDict]
      [] text = TextFinancial ->
            [ok |-> TRUE,
             value |-> Dict(<<Field("revenue", Str("growing")),
                              Field("investment_rating", Str("buy"))>>)]
      [] text = TextSwot ->
            [ok |-> TRUE,
             value |-> Dict(<<Field("strengths", List(<<Str("brand")>>)),
                              Field("threats", Str("rivals"))>>)]
      [] text = TextMixed ->
            [ok |-> TRUE,
             value |-> Dict(<<Field("summary", Str("stable")),
                              Field("revenue", Str("growing"))>>)]
      [] text = TextNull -> [ok |-> TRUE, value |-> Null]
      [] text = TextNumber -> [ok |-> TRUE, value |-> Num(42)]
      [] OTHER -> [ok |-> FALSE, exc |-> "Expecting value"]

----------------------------------------------------------------------------
(* DataAnalyzer *)

DimOrder == <<"financial", "history", "industry", "swot", "predictions">>

Dims == {DimOrder[i] : i \in 1..Len(DimOrder)}

Structured == {"financial", "swot"}

\* The answers the backend may give to the prompt of a dimension.
Outcomes(dim) ==
    {Failure} \cup
    {Response(t) : t \in FirstTexts(IF dim \in Structured
                                    THEN NumTexts ELSE NumNarrativeTexts)}

\* str(content)[:500] + "..."
ExcerptLimit == 500

Excerpt(content) == [k |-> "excerpt", of |-> content, limit |-> ExcerptLimit]

\* ', '.join(v): TypeError unless v is an iterable of str.
Join(v) ==
    CASE v.k = "list" ->
            IF \A i \in 1..Len(v.items) : v.items[i].k = "str"
            THEN [ok |-> TRUE, value |-> [k |-> "joined", items |-> v.items]]
            ELSE [ok |-> FALSE, exc |-> "sequence item: expected str instance"]
      [] v.k = "dict" ->
            [ok |-> TRUE,
             value |-> [k |-> "joined",
                        items |-> [i \in 1..Len(v.fields) |-> Str(v.fields[i].key)]]]
      [] v.k \in {"null", "num"} ->
            [ok |-> FALSE, exc |-> "can only join an iterable"]

\* The lines one raw_content entry adds to the context.
RECURSIVE ContentLines(_)
ContentLines(fields) ==
    IF fields = <<>> THEN <<>>
    ELSE LET f == Head(fields)
             body == IF f.val.k = "dict"
                     THEN [i \in 1..Len(f.val.fields) |->
                             [k |-> "line", key |-> f.val.fields[i].key,
                              val |-> f.val.fields[i].val]]
                     ELSE <<Excerpt(f.val)>>
         IN  <<[k |-> "upper", s |-> f.key]>> \o body \o ContentLines(Tail(fields))

\* _prepare_context(data): the context, or the exception it raises.
_prepare_context(d) ==
    LET q == Get(d, "query", Str("Unknown")) IN
    IF ~q.ok THEN [ok |-> FALSE, exc |-> q.exc]
    ELSE
    LET j == Join(DictGet(d, "sources", List(<<>>))) IN
    IF ~j.ok THEN [ok |-> FALSE, exc |-> j.exc]
    ELSE
    LET rc == DictGet(d, "raw_content", EmptyDict) IN
    IF rc.k # "dict"
    THEN [ok |-> FALSE, exc |-> "object has no attribute 'items'"]
    ELSE [ok |-> TRUE,
          value |-> <<Str("Analyze the following information:"),
                      [k |-> "query", val |-> q.value],
                      j.value>> \o ContentLines(rc.fields)]

\* _error_insights(data, error): data.get raises when data is no dict, and
\* nothing catches it.
_error_insights(d, error, now) ==
    LET q == Get(d, "query", Null) IN
    IF ~q.ok THEN Raised(q.exc)
    ELSE Returned(Dict(<<Field("timestamp", Num(now)),
                         Field("query", q.value),
                         Field("error", Str(error)),
                         Field("analysis",
                               Dict(<<Field("status", Str("Analysis incomplete")),
                                      Field("message", Str(error))>>))>>))

\* The structured dimensions: None when the call fails, else the parsed
\* value, else {'summary': text}.
ParseStructured(out) ==
    IF ~out.ok THEN Null
    ELSE LET p == json_loads(out.text) IN
         IF p.ok THEN p.value ELSE Dict(<<Field("summary", Str(out.text))>>)

\* The narrative dimensions: None when the call fails, else {field: text}.
StoreNarrative(out, field) ==
    IF ~out.ok THEN Null ELSE Dict(<<Field(field, Str(out.text))>>)

_analyze_financial(out) == ParseStructured(out)

_analyze_history(out) == StoreNarrative(out, "timeline")

_analyze_industry(out) == StoreNarrative(out, "market_analysis")

_analyze_swot(out) == ParseStructured(out)

_analyze_predictions(out) == StoreNarrative(out, "outlook")

\* StoreDimension without the `if`: a failed dimension is stored as None.
StoreDimensionAlways(ins, dim, result) ==
    DictSet(ins, "analysis",
            DictSet(DictGet(ins, "analysis", Null), dim, result))

\* `if x_analysis: insights['analysis'][dim] = x_analysis`
StoreDimension(ins, dim, result) ==
    IF Truthy(result)
    THEN DictSet(ins, "analysis",
                 DictSet(DictGet(ins, "analysis", Null), dim, result))
    ELSE ins

\* SourcesAnalyzed with the key misspelt: the default is always counted.
SourcesAnalyzedWrongKey(d) == PyLen(DictGet(d, "source", List(<<>>)))

\* len(data.get('sources', []))
SourcesAnalyzed(d) == PyLen(DictGet(d, "sources", List(<<>>)))

\* analyze, up to the first backend call: the context and the fresh record,
\* or the outcome of the except branch.
analyze_begin(d, now) ==
    LET c == _prepare_context(d) IN
    IF ~c.ok THEN [ok |-> FALSE, out |-> _error_insights(d, c.exc, now)]
    ELSE
    LET n == SourcesAnalyzed(d) IN
    IF ~n.ok THEN [ok |-> FALSE, out |-> _error_insights(d, n.exc, now)]
    ELSE [ok |-> TRUE,
          context |-> c.value,
          insights |-> Dict(<<Field("timestamp", Num(now)),
                              Field("query", DictGet(d, "query", Str("Unknown"))),
                              Field("sources_analyzed", Num(n.value)),
                              Field("analysis", EmptyDict)>>)]

----------------------------------------------------------------------------
(* ReportGenerator.  A report is a sequence of pieces                      *)
(* [kind, label, val]: kind "h2" is a "## label" section header, "h3" a    *)
(* "### label" sub-header, "field" a "**label:** val" line, "item" a       *)
(* "- val" line, "text" a paragraph holding val.                           *)

P(kind, label, val) == [kind |-> kind, label |-> label, val |-> val]

TemplateVersion == "1.0"

\* key.replace('_', ' ').title()
TitleOf(key) ==
    CASE key = "revenue" -> "Revenue"
      [] key = "investment_rating" -> "Investment Rating"
      [] key = "profitability" -> "Profitability"
      [] key = "health" -> "Health"
      [] key = "strengths" -> "Strengths"
      [] key = "threats" -> "Threats"

\* category.capitalize()
Capitalize(category) ==
    CASE category = "strengths" -> "Strengths"
      [] category = "weaknesses" -> "Weaknesses"
      [] category = "opportunities" -> "Opportunities"
      [] category = "threats" -> "Threats"

SectionTitle(dim) ==
    CASE dim = "financial" -> "Financial Analysis"
      [] dim = "history" -> "History & Background"
      [] dim = "industry" -> "Industry & Market Analysis"
      [] dim = "swot" -> "SWOT Analysis"
      [] dim = "predictions" -> "Future Outlook & Recommendations"

Ok(v) == [ok |-> TRUE, value |-> v]

Exc(e) == [ok |-> FALSE, exc |-> e]

\* insights.get('analysis', {}).get(dim, {}), the first two lines of every
\* section builder.
SectionData(ins, dim) ==
    LET a == Get(ins, "analysis", EmptyDict) IN
    IF ~a.ok THEN a ELSE Get(a.value, dim, EmptyDict)

_build_header(q, ins, now) ==
    LET ts == Get(ins, "timestamp", Num(now)) IN
    IF ~ts.ok THEN ts
    ELSE Ok(<<P("title", "Research Report", q),
              P("meta", "Generated", ts.value),
              P("meta", "Sources Analyzed", DictGet(ins, "sources_analyzed", Num(0))),
              P("meta", "Report Version", Str(TemplateVersion)),
              P("rule", "", Null)>>)

_build_executive_summary(ins) ==
    IF ins.k # "dict" THEN Exc("argument is not iterable")
    ELSE IF DictHas(ins, "error")
    THEN Ok(<<P("h2", "Executive Summary", Null),
              P("note", "Analysis encountered an issue", DictGet(ins, "error", Null))>>)
    ELSE Ok(<<P("h2", "Executive Summary", Null),
              P("overview", "comprehensive analysis based on sources",
                DictGet(ins, "sources_analyzed", Num(0)))>>)

\* The loop over financial.items(): every field but 'summary'.
RECURSIVE FinancialLines(_)
FinancialLines(fields) ==
    IF fields = <<>> THEN <<>>
    ELSE (IF Head(fields).key # "summary"
          THEN <<P("field", TitleOf(Head(fields).key), Head(fields).val)>>
          ELSE <<>>) \o FinancialLines(Tail(fields))

\* _build_financial_section without the early return: an absent dimension
\* gets an empty section.
BuildFinancialPlaceholder(ins) ==
    Bind(SectionData(ins, "financial"), LAMBDA f :
    IF ~f.ok THEN f
    ELSE Ok(<<P("h2", SectionTitle("financial"), Null)>> \o
            (IF f.value.k = "dict" THEN FinancialLines(f.value.fields)
             ELSE <<P("text", "", f.value)>>)))

_build_financial_section(ins) ==
    Bind(SectionData(ins, "financial"), LAMBDA f :
    IF ~f.ok THEN f
    ELSE IF ~Truthy(f.value) THEN Ok(<<>>)
    ELSE Ok(<<P("h2", SectionTitle("financial"), Null)>> \o
            (IF f.value.k = "dict" THEN FinancialLines(f.value.fields)
             ELSE <<P("text", "", f.value)>>)))

\* The history, industry and predictions builders: the stored text, when
\* truthy, under the section header.
NarrativeSection(ins, dim, field) ==
    Bind(SectionData(ins, dim), LAMBDA h :
    IF ~h.ok THEN h
    ELSE IF ~Truthy(h.value) THEN Ok(<<>>)
    ELSE Ok(<<P("h2", SectionTitle(dim), Null)>> \o
            (IF h.value.k = "dict"
             THEN (IF Truthy(DictGet(h.value, field, Str("")))
                   THEN <<P("text", "", DictGet(h.value, field, Str("")))>>
                   ELSE <<>>)
             ELSE <<P("text", "", h.value)>>)))

_build_history_section(ins) == NarrativeSection(ins, "history", "timeline")

_build_industry_section(ins) == NarrativeSection(ins, "industry", "market_analysis")

_build_predictions_section(ins) == NarrativeSection(ins, "predictions", "outlook")

SwotCategories == <<"strengths", "weaknesses", "opportunities", "threats">>

\* One pass of the loop over the four categories.
SwotCategory(swot, category) ==
    LET items == DictGet(swot, category, List(<<>>)) IN
    <<P("h3", Capitalize(category), Null)>> \o
    (IF items.k = "list"
     THEN [i \in 1..Len(items.items) |-> P("item", "", items.items[i])]
     ELSE <<P("text", "", items)>>)

_build_swot_section(ins) ==
    Bind(SectionData(ins, "swot"), LAMBDA w :
    IF ~w.ok THEN w
    ELSE IF ~Truthy(w.value) THEN Ok(<<>>)
    ELSE Ok(<<P("h2", SectionTitle("swot"), Null)>> \o
            (IF w.value.k = "dict"
             THEN SwotCategory(w.value, SwotCategories[1]) \o
                  SwotCategory(w.value, SwotCategories[2]) \o
                  SwotCategory(w.value, SwotCategories[3]) \o
                  SwotCategory(w.value, SwotCategories[4])
             ELSE <<P("text", "", w.value)>>)))

_build_footer ==
    <<P("rule", "", Null),
      P("footer", "Report generated by AI Data Scientist Agent v", Str(TemplateVersion)),
      P("footer", "Using Google Gemini API for intelligent analysis", Null),
      P("footer", "For more information, visit", Null)>>

_error_report(q, error, now) ==
    Ok(<<P("title", "Error Report", q),
         P("meta", "Status", Str("Analysis Failed")),
         P("meta", "Error", Str(error)),
         P("meta", "Generated", Num(now)),
         P("text", "The analysis could not be completed", Null)>>)

\* report += part: the report so far with the part appended, or the
\* exception of whichever raised first.
Then(report, part) ==
    IF ~report.ok THEN report
    ELSE IF ~part.ok THEN part
    ELSE Ok(report.value \o part.value)

\* The section builder of a dimension.
SectionOf(ins, dim) ==
    CASE dim = "financial" -> _build_financial_section(ins)
      [] dim = "history" -> _build_history_section(ins)
      [] dim = "industry" -> _build_industry_section(ins)
      [] dim = "swot" -> _build_swot_section(ins)
      [] dim = "predictions" -> _build_predictions_section(ins)

RECURSIVE SectionsInOrder(_, _, _)
SectionsInOrder(report, ins, order) ==
    IF order = <<>> THEN report
    ELSE SectionsInOrder(Bind(Then(report, SectionOf(ins, Head(order))), LAMBDA r : r),
                         ins, Tail(order))

\* ReportBody with the sections built by iterating over analysis: they
\* come in the order in which the keys were inserted.
ReportBodyInKeyOrder(q, ins, now) ==
    LET a == IF ins.k = "dict" THEN DictGet(ins, "analysis", EmptyDict) ELSE Null
        order == IF a.k = "dict"
                 THEN SelectSeq([i \in 1..Len(a.fields) |-> a.fields[i].key],
                                LAMBDA key : key \in Dims)
                 ELSE DimOrder
    IN  Bind(Then(_build_header(q, ins, now), _build_executive_summary(ins)), LAMBDA r1 :
        Bind(SectionsInOrder(r1, ins, order), LAMBDA r2 :
        Then(r2, Ok(_build_footer))))

\* The try block of generate.
ReportBody(q, ins, now) ==
    Bind(Then(_build_header(q, ins, now), _build_executive_summary(ins)), LAMBDA r1 :
    Bind(Then(r1, _build_financial_section(ins)), LAMBDA r2 :
    Bind(Then(r2, _build_history_section(ins)), LAMBDA r3 :
    Bind(Then(r3, _build_industry_section(ins)), LAMBDA r4 :
    Bind(Then(r4, _build_swot_section(ins)), LAMBDA r5 :
    Bind(Then(r5, _build_predictions_section(ins)), LAMBDA r6 :
    Then(r6, Ok(_build_footer))))))))

\* generate without its except branch: the exception leaves the method.
GenerateUnguarded(q, ins, now) ==
    Bind(ReportBody(q, ins, now), LAMBDA body :
    IF body.ok THEN Returned(body.value) ELSE Raised(body.exc))

\* ReportGenerator.generate(query, insights)
generate(q, ins, now) ==
    Bind(ReportBody(q, ins, now), LAMBDA body :
    IF body.ok THEN Returned(body.value)
    ELSE LET e == _error_report(q, body.exc, now + 1) IN
         IF e.ok THEN Returned(e.value) ELSE Raised(e.exc))

----------------------------------------------------------------------------
(* Arguments of the calls *)

QueryPool == <<Str("Acme Corp"), Null, Str("Ada Lovelace")>>

\* How many of QueryPool are passed to direct calls.
NumQueries == 2

Queries == {QueryPool[i] : i \in 1..(IF NumQueries < Len(QueryPool)
                                     THEN NumQueries ELSE Len(QueryPool))}

\* What input().strip() may give main().
MainQueries == {"", "Acme Corp"}

Collection(q, sources, raw) ==
    Dict(<<Field("query", q), Field("timestamp", Num(0)),
           Field("sources", sources), Field("raw_content", raw)>>)

\* Records a Collector can hand over: what scrape returns, a record with no
\* source, and one whose content is free text.
CollectionInputs ==
    {scrape(q, h, 0) : q \in Queries, h \in {"ok", "exception"}} \cup
    {Collection(Str("Acme Corp"), List(<<>>), EmptyDict),
     Collection(Str("Acme Corp"), List(<<Str("Wikipedia")>>),
                Dict(<<Field("wikipedia", Str("Acme Corp is a company"))>>))}

\* Malformed arguments of analyze: no mapping at all, keys missing, fields
\* of the wrong type.
MalformedInputs ==
    {Null, List(<<>>), Num(3), EmptyDict,
     Dict(<<Field("query", Str("Acme Corp"))>>),
     Collection(Str("Acme Corp"), Null, EmptyDict),
     Collection(Str("Acme Corp"), Num(5), EmptyDict),
     Collection(Str("Acme Corp"), List(<<Num(1)>>), EmptyDict),
     Collection(Str("Acme Corp"), List(<<>>), Null),
     Collection(Str("Acme Corp"), List(<<Str("Wikipedia")>>), List(<<>>))}

AnalyzeInputs == CollectionInputs \cup MalformedInputs

\* Values a dimension may hold in an insight record handed to generate.
SampleValues(dim) ==
    IF dim = "financial"
    THEN {_analyze_financial(Response(t)) :
            t \in {TextNarrative, TextFinancial, TextMixed, TextNumber}}
    ELSE IF dim = "swot"
    THEN {_analyze_swot(Response(t)) : t \in {TextNarrative, TextSwot}}
    ELSE IF dim = "history" THEN {_analyze_history(Response(TextNarrative))}
    ELSE IF dim = "industry" THEN {_analyze_industry(Response(TextNarrative))}
    ELSE {_analyze_predictions(Response(TextNarrative))}

RECURSIVE FieldsOver(_)
FieldsOver(order) ==
    IF order = <<>> THEN {<<>>}
    ELSE {<<Field(Head(order), v)>> \o rest :
            v \in SampleValues(Head(order)), rest \in FieldsOver(Tail(order))}

Reverse(seq) == [i \in 1..Len(seq) |-> seq[Len(seq) + 1 - i]]

Restrict(seq, S) == SelectSeq(seq, LAMBDA x : x \in S)

\* Analyses over every subset of the dimensions, with the keys inserted in
\* the fixed order or in the reverse order.
AnalysisInputs ==
    UNION {{Dict(fs) : fs \in FieldsOver(Restrict(DimOrder, S)) \cup
                              FieldsOver(Restrict(Reverse(DimOrder), S))} :
             S \in SUBSET Dims}

Insight(analysis) ==
    Dict(<<Field("timestamp", Num(0)), Field("query", Str("Acme Corp")),
           Field("sources_analyzed", Num(2)), Field("analysis", analysis)>>)

\* Malformed arguments of generate: no mapping, no analysis, an analysis
\* that is no mapping; and the record of the analyzer's except branch.
MalformedInsights ==
    {Null, List(<<>>), EmptyDict,
     Insight(Null), Insight(Str("pending")), Insight(List(<<>>)),
     _error_insights(EmptyDict, "can only join an iterable", 0).value}

InsightInputs == {Insight(a) : a \in AnalysisInputs} \cup MalformedInsights

----------------------------------------------------------------------------
(* The state machine *)

Init ==
    /\ pc = "idle"
    /\ query = Null
    /\ data = Null
    /\ scrArgs = <<>>
    /\ scrOut = NoOutcome
    /\ apc = "none"
    /\ anData = Null
    /\ context = <<>>
    /\ insights = Null
    /\ calls = <<>>
    /\ anOut = NoOutcome
    /\ stub = {}
    /\ first = [context |-> <<>>, calls |-> <<>>, out |-> NoOutcome]
    /\ genArgs = <<>>
    /\ genOut = NoOutcome
    /\ saved = NoOutcome
    /\ exitCode = -1
    /\ clock = 1

mainVars == <<query, data, saved, exitCode>>

anVars == <<apc, anData, context, insights, calls, anOut, stub, first>>

\* AfterCall when a failed call ends the analysis.
AfterCallAbortOnFailure(dim, ok) ==
    LET i == CHOOSE j \in 1..Len(DimOrder) : DimOrder[j] = dim IN
    IF ok /\ i < Len(DimOrder) THEN DimOrder[i + 1] ELSE "done"

\* The statement analyze runs after the backend call of `dim` has been
\* handled, whatever its outcome: the next dimension, or the return.
AfterCall(dim, ok) ==
    LET i == CHOOSE j \in 1..Len(DimOrder) : DimOrder[j] = dim IN
    IF i < Len(DimOrder) THEN DimOrder[i + 1] ELSE "done"

DimResult(dim, out) ==
    CASE dim = "financial" -> _analyze_financial(out)
      [] dim = "history" -> _analyze_history(out)
      [] dim = "industry" -> _analyze_industry(out)
      [] dim = "swot" -> _analyze_swot(out)
      [] dim = "predictions" -> _analyze_predictions(out)

\* analyze is entered with argument d: lines 48-58, or the except branch.
BeginAnalyze(d) ==
    LET b == analyze_begin(d, clock) IN
    /\ anData' = d
    /\ calls' = <<>>
    /\ clock' = clock + 1
    /\ stub' = stub
    /\ IF b.ok
       THEN /\ context' = b.context
            /\ insights' = b.insights
            /\ apc' = DimOrder[1]
            /\ anOut' = NoOutcome
       ELSE /\ context' = <<>>
            /\ insights' = Null
            /\ apc' = "done"
            /\ anOut' = b.out

\* Prompt with the timestamp of the record under construction in it.
PromptWithTimestamp(ctx, dim, ins) ==
    [context |-> ctx, ask |-> dim, at |-> DictGet(ins, "timestamp", Null)]

\* The prompt of a dimension: the context, then the dimension's request.
Prompt(ctx, dim, ins) == [context |-> ctx, ask |-> dim]

\* model.generate_content(prompt): the stub answers a prompt it has
\* answered before as it did then, and any other prompt freely.
Answers(prompt, dim) ==
    IF \E e \in stub : e.prompt = prompt
    THEN {e.out : e \in {x \in stub : x.prompt = prompt}}
    ELSE Outcomes(dim)

\* One dimension of analyze: the backend call, the parse, the store.
AnalyzeStep(dim) ==
    /\ apc = dim
    /\ \E out \in Answers(Prompt(context, dim, insights), dim) :
         LET ins == StoreDimension(insights, dim, DimResult(dim, out))
             pos == AfterCall(dim, out.ok)
         IN  /\ calls' = Append(calls, [dim |-> dim, ok |-> out.ok, text |-> out.text])
             /\ stub' = stub \cup {[prompt |-> Prompt(context, dim, insights), out |-> out]}
             /\ insights' = ins
             /\ apc' = pos
             /\ anOut' = IF pos = "done" THEN Returned(ins) ELSE anOut
    /\ UNCHANGED <<pc, mainVars, scrArgs, scrOut, anData, context, first, genArgs, genOut, clock>>

AnalyzeFinancial == AnalyzeStep("financial")

AnalyzeHistory == AnalyzeStep("history")

AnalyzeIndustry == AnalyzeStep("industry")

AnalyzeSwot == AnalyzeStep("swot")

AnalyzePredictions == AnalyzeStep("predictions")

\* Direct call of DataScraper.scrape
Scrape ==
    /\ pc = "idle"
    /\ \E q \in Queries, http \in HttpOutcomes :
         /\ scrArgs' = <<q, http>>
         /\ scrOut' = Returned(scrape(q, http, clock))
    /\ clock' = clock + 1
    /\ pc' = "scrape_called"
    /\ UNCHANGED <<mainVars, anVars, genArgs, genOut>>

\* Direct call of DataAnalyzer.analyze
Analyze ==
    /\ pc = "idle"
    /\ \E d \in AnalyzeInputs : BeginAnalyze(d)
    /\ pc' = "analyze_called"
    /\ UNCHANGED <<mainVars, first, scrArgs, scrOut, genArgs, genOut>>

\* DataAnalyzer.analyze is called a second time on the same argument,
\* after the first call has ended, with the same backend stub.
AnalyzeAgain ==
    /\ pc = "analyze_called"
    /\ apc = "done"
    /\ first' = [context |-> context, calls |-> calls, out |-> anOut]
    /\ BeginAnalyze(anData)
    /\ pc' = "analyze_again"
    /\ UNCHANGED <<mainVars, scrArgs, scrOut, genArgs, genOut>>

\* Direct call of ReportGenerator.generate
Generate ==
    /\ pc = "idle"
    /\ \E q \in Queries, ins \in InsightInputs :
         /\ genArgs' = <<q, ins>>
         /\ genOut' = generate(q, ins, clock)
    /\ clock' = clock + 2
    /\ pc' = "generate_called"
    /\ UNCHANGED <<mainVars, anVars, scrArgs, scrOut>>

\* main(), lines 53-72: the API key and the query are validated;
\* sys.exit(1) ends the process.
MainInput ==
    /\ pc = "idle"
    /\ \E key \in BOOLEAN, q \in MainQueries :
         IF key /\ q # ""
         THEN /\ pc' = "main_scrape"
              /\ query' = Str(q)
              /\ exitCode' = exitCode
         ELSE /\ pc' = "exit"
              /\ query' = query
              /\ exitCode' = 1
    /\ UNCHANGED <<data, saved, anVars, scrArgs, scrOut, genArgs, genOut, clock>>

\* main(), step 1
MainScrape ==
    /\ pc = "main_scrape"
    /\ \E http \in HttpOutcomes :
         /\ data' = scrape(query, http, clock)
         /\ scrArgs' = <<query, http>>
         /\ scrOut' = Returned(scrape(query, http, clock))
    /\ clock' = clock + 1
    /\ pc' = "main_analyze"
    /\ UNCHANGED <<query, saved, exitCode, anVars, genArgs, genOut>>

\* main(), step 2: analyzer.analyze(data) is entered
MainAnalyze ==
    /\ pc = "main_analyze"
    /\ BeginAnalyze(data)
    /\ pc' = "main_analyzing"
    /\ UNCHANGED <<mainVars, first, scrArgs, scrOut, genArgs, genOut>>

\* main(), step 3: analyze has returned, the report is generated and
\* printed; an exception out of either call reaches `except Exception`.
MainGenerate ==
    /\ pc = "main_analyzing"
    /\ apc = "done"
    /\ IF anOut.kind = "returned"
       THEN /\ genArgs' = <<query, anOut.value>>
            /\ genOut' = generate(query, anOut.value, clock)
            /\ IF genOut'.kind = "returned"
               THEN pc' = "main_save" /\ exitCode' = exitCode
               ELSE pc' = "exit" /\ exitCode' = 1
       ELSE /\ pc' = "exit"
            /\ exitCode' = 1
            /\ UNCHANGED <<genArgs, genOut>>
    /\ clock' = clock + 2
    /\ UNCHANGED <<query, data, saved, anVars, scrArgs, scrOut>>

\* main(), lines 104-113: the report file is written, or open() raises.
MainSave ==
    /\ pc = "main_save"
    /\ \E written \in BOOLEAN :
         IF written
         THEN saved' = genOut /\ exitCode' = 0
         ELSE saved' = saved /\ exitCode' = 1
    /\ pc' = "exit"
    /\ UNCHANGED <<query, data, anVars, scrArgs, scrOut, genArgs, genOut, clock>>

Next ==
    \/ Scrape
    \/ Analyze
    \/ AnalyzeAgain
    \/ Generate
    \/ AnalyzeFinancial
    \/ AnalyzeHistory
    \/ AnalyzeIndustry
    \/ AnalyzeSwot
    \/ AnalyzePredictions
    \/ MainInput
    \/ MainScrape
    \/ MainAnalyze
    \/ MainGenerate
    \/ MainSave

Spec == Init /\ [][Next]_vars

\* The modules main.py imports from this repository, lines 15-17.
Imports == <<"data_scraper", "data_analyzer", "report_generator">>

\* Whether Python compiles the module.  report_generator.py ends with
\* `"""}`: the `}` follows the closing quotes of _error_report's string and
\* matches nothing, a SyntaxError.
Compiles(m) == m # "report_generator"

\* main.py is run: its imports execute before main() is defined.  The
\* SyntaxError of a module that does not compile leaves the import, the
\* interpreter prints the traceback and exits with status 1.
MainImport ==
    /\ pc = "idle"
    /\ \E i \in 1..Len(Imports) : ~Compiles(Imports[i])
    /\ pc' = "crashed"
    /\ exitCode' = 1
    /\ UNCHANGED <<query, data, saved, anVars, scrArgs, scrOut, genArgs, genOut, clock>>

ProcessNext ==
    \/ MainImport
    \/ Scrape
    \/ Analyze
    \/ AnalyzeAgain
    \/ AnalyzeFinancial
    \/ AnalyzeHistory
    \/ AnalyzeIndustry
    \/ AnalyzeSwot
    \/ AnalyzePredictions

ProcessSpec == Init /\ [][ProcessNext]_vars

\* The program is sequential and keeps running; the scraper's request has
\* a timeout, and the backend is taken to answer or fail every call.
FairSpec == Init /\ [][Next]_vars /\ WF_vars(Next)

----------------------------------------------------------------------------
(* Properties *)

AnalyzeDone == apc = "done"

\* The dimensions whose backend call failed in this run of analyze.
FailedDims == {calls[i].dim : i \in {j \in 1..Len(calls) : ~calls[j].ok}}

CalledDims == [i \in 1..Len(calls) |-> calls[i].dim]

AnalysisOf(rec) == DictGet(rec, "analysis", EmptyDict)

\* analyze returned a record of its normal path.
ReturnedNormally ==
    /\ AnalyzeDone
    /\ anOut.kind = "returned"
    /\ ~DictHas(anOut.value, "error")

\* C1: whatever the backend answers for the dimensions whose call does not
\* fail, the record analyze returns has exactly the non-failing dimensions
\* as the keys of its analysis.
C1_AnalysisIsExactlyTheNonFailing ==
    ReturnedNormally => Keys(AnalysisOf(anOut.value)) = Dims \ FailedDims

\* C2: the backend is invoked in the order financial, history, industry,
\* swot, predictions, never twice for a dimension, and when the context
\* could be built a finished run has invoked it for all five, whatever the
\* outcomes were.
C2_EachDimensionOnceInOrder ==
    /\ Len(calls) <= Len(DimOrder)
    /\ \A i \in 1..Len(calls) : calls[i].dim = DimOrder[i]
    /\ (AnalyzeDone /\ _prepare_context(anData).ok) => CalledDims = DimOrder

\* A finished run in which the first call failed and a later one succeeded.
C2_Witness ==
    /\ AnalyzeDone
    /\ Len(calls) = 5
    /\ ~calls[1].ok /\ calls[2].ok /\ ~calls[4].ok /\ calls[5].ok

\* C3: analyze never propagates an exception: for every argument, a
\* mapping or not, it returns a record, which carries `error` and the status
\* note when the context could not be built.
C3_AnalyzeNeverPropagates ==
    AnalyzeDone =>
        /\ anOut.kind = "returned"
        /\ ~_prepare_context(anData).ok =>
              /\ DictHas(anOut.value, "error")
              /\ Keys(AnalysisOf(anOut.value)) = {"status", "message"}

\* A record as the Collector hands it over: a mapping with a list of source
\* names and a mapping of contents.
IsCollectionResult(d) ==
    /\ d.k = "dict"
    /\ {"query", "sources", "raw_content"} \subseteq Keys(d)
    /\ DictGet(d, "sources", Null).k = "list"
    /\ \A i \in 1..Len(DictGet(d, "sources", Null).items) :
         DictGet(d, "sources", Null).items[i].k = "str"
    /\ DictGet(d, "raw_content", Null).k = "dict"

\* C4: for a CollectionResult, whichever dimensions failed, the record
\* returned has sources_analyzed equal to the length of the sources list.
C4_SourcesAnalyzedIsSourceCount ==
    (AnalyzeDone /\ IsCollectionResult(anData)) =>
        /\ anOut.kind = "returned"
        /\ DictGet(anOut.value, "sources_analyzed", Null) =
              Num(Len(DictGet(anData, "sources", Null).items))

\* All five dimensions failed on a record with three sources.
C4_Witness ==
    /\ AnalyzeDone
    /\ IsCollectionResult(anData)
    /\ Len(DictGet(anData, "sources", Null).items) = 3
    /\ FailedDims = Dims

\* The three sources of scrape: the name it lists, the key it stores under.
SourceTable ==
    <<[name |-> "Wikipedia", key |-> "wikipedia"],
      [name |-> "Google Search", key |-> "google"],
      [name |-> "Company Database", key |-> "company"]>>

ScrapeCalled == scrArgs # <<>>

\* C5: scrape returns a record in which a source is listed in sources
\* exactly when its content is stored in raw_content, each once, every
\* stored content is non-empty, and a failed Wikipedia request leaves
\* Wikipedia out of both.
C5_SourcesMatchRawContent ==
    ScrapeCalled =>
        /\ scrOut.kind = "returned"
        /\ LET src == DictGet(scrOut.value, "sources", Null).items
               raw == DictGet(scrOut.value, "raw_content", Null)
           IN  /\ \A i \in 1..Len(SourceTable) :
                     (\E j \in 1..Len(src) : src[j] = Str(SourceTable[i].name))
                        <=> DictHas(raw, SourceTable[i].key)
               /\ \A j1, j2 \in 1..Len(src) : src[j1] = src[j2] => j1 = j2
               /\ Len(src) = Len(raw.fields)
               /\ \A j \in 1..Len(raw.fields) : Truthy(raw.fields[j].val)
               /\ scrArgs[2] # "ok" => ~DictHas(raw, "wikipedia")

\* Two sources failed (the query is no str) and one delivered.
C5_Witness ==
    /\ ScrapeCalled
    /\ scrArgs[1] = Null
    /\ DictGet(scrOut.value, "sources", Null).items = <<Str("Company Database")>>
    /\ Keys(DictGet(scrOut.value, "raw_content", Null)) = {"company"}

GenerateCalled == genArgs # <<>>

\* The dimension is a key of the analysis of the record given to generate.
Present(ins, dim) ==
    /\ ins.k = "dict"
    /\ AnalysisOf(ins).k = "dict"
    /\ DictHas(AnalysisOf(ins), dim)

HasSectionHeader(report, dim) ==
    \E i \in 1..Len(report) :
        report[i].kind = "h2" /\ report[i].label = SectionTitle(dim)

\* C6: the report holds no section header of a dimension that is absent
\* from the analysis, and when all five are absent it is the header, the
\* executive summary and the footer, nothing else.
C6_NoSectionForAbsentDimension ==
    GenerateCalled =>
        /\ genOut.kind = "returned"
        /\ \A dim \in Dims :
              ~Present(genArgs[2], dim) => ~HasSectionHeader(genOut.value, dim)
        /\ (/\ genArgs[2].k = "dict"
            /\ AnalysisOf(genArgs[2]).k = "dict"
            /\ \A dim \in Dims : ~Present(genArgs[2], dim))
           => genOut.value =
                 _build_header(genArgs[1], genArgs[2], clock - 2).value \o
                 _build_executive_summary(genArgs[2]).value \o
                 _build_footer

\* A report with a section for history and swot and none for the other
\* three, which the analysis does not hold.
C6_Witness ==
    /\ GenerateCalled
    /\ genArgs[2].k = "dict"
    /\ AnalysisOf(genArgs[2]).k = "dict"
    /\ Keys(AnalysisOf(genArgs[2])) = {"history", "swot"}
    /\ HasSectionHeader(genOut.value, "history")
    /\ HasSectionHeader(genOut.value, "swot")

\* C7: when financial or swot is present with `summary` as its only field,
\* its section includes the summary text.
C7_SummaryOnlyIsRendered ==
    (GenerateCalled /\ genOut.kind = "returned") =>
        \A dim \in Structured :
            (/\ Present(genArgs[2], dim)
             /\ DictGet(AnalysisOf(genArgs[2]), dim, Null).k = "dict"
             /\ Keys(DictGet(AnalysisOf(genArgs[2]), dim, Null)) = {"summary"})
            => \E i \in 1..Len(genOut.value) :
                  genOut.value[i].val =
                     DictGet(DictGet(AnalysisOf(genArgs[2]), dim, Null), "summary", Null)

\* C8: a structured dimension whose call succeeded with a text that does
\* not parse is stored as {summary: text}; and a dimension is left out only
\* when its backend call failed.
C8_OnlyFailedCallOmits ==
    ReturnedNormally =>
        /\ \A i \in 1..Len(calls) :
              (calls[i].dim \in Structured /\ calls[i].ok
                 /\ ~json_loads(calls[i].text).ok)
              => DictGet(AnalysisOf(anOut.value), calls[i].dim, Null) =
                    Dict(<<Field("summary", Str(calls[i].text))>>)
        /\ \A dim \in Dims :
              ~DictHas(AnalysisOf(anOut.value), dim) => dim \in FailedDims

\* C9: generate never propagates an exception; when building a part raises
\* it returns the error report, which names the query and the error and
\* holds nothing of the report built so far.
C9_GenerateNeverPropagates ==
    GenerateCalled =>
        /\ genOut.kind = "returned"
        /\ ~ReportBody(genArgs[1], genArgs[2], 0).ok =>
              /\ genOut.value[1] = P("title", "Error Report", genArgs[1])
              /\ \E i \in 1..Len(genOut.value) :
                    /\ genOut.value[i].label = "Error"
                    /\ genOut.value[i].val =
                          Str(ReportBody(genArgs[1], genArgs[2], 0).exc)
              /\ \A i \in 1..Len(genOut.value) :
                    genOut.value[i].kind \notin {"h2", "h3", "rule", "footer", "overview"}

\* The header and the summary were built, the financial section raised:
\* the analysis of the record is no mapping.
C9_Witness ==
    /\ GenerateCalled
    /\ genArgs[2].k = "dict"
    /\ AnalysisOf(genArgs[2]).k = "str"
    /\ _build_header(genArgs[1], genArgs[2], 0).ok
    /\ _build_executive_summary(genArgs[2]).ok
    /\ ~_build_financial_section(genArgs[2]).ok

\* main() has run its three steps: the report was generated and printed.
PipelineCompleted ==
    /\ pc \in {"main_save", "exit"}
    /\ exitCode # 1 \/ saved = NoOutcome
    /\ anOut.kind = "returned"
    /\ genOut.kind = "returned"
    /\ genArgs = <<query, anOut.value>>
    /\ genOut.value[1] = P("title", "Research Report", query)
    /\ genOut.value[Len(genOut.value)] = _build_footer[Len(_build_footer)]

\* In the run, every source that failed is out of sources, and when every
\* dimension failed the analysis is empty and the report is the header, the
\* summary and the footer.
DegradedAsSpecified ==
    /\ scrArgs[2] # "ok" =>
          \A j \in 1..Len(DictGet(data, "sources", Null).items) :
              DictGet(data, "sources", Null).items[j] # Str("Wikipedia")
    /\ DictGet(anOut.value, "sources_analyzed", Null) =
          Num(Len(DictGet(data, "sources", Null).items))
    /\ FailedDims = Dims =>
          /\ AnalysisOf(anOut.value) = EmptyDict
          /\ Len(genOut.value) =
                Len(_build_header(query, anOut.value, 0).value) +
                Len(_build_executive_summary(anOut.value).value) +
                Len(_build_footer)
          /\ \A dim \in Dims : ~HasSectionHeader(genOut.value, dim)

\* With the classes loaded: once main() has accepted a non-empty query,
\* whatever sources and dimensions fail, the pipeline eventually completes
\* with a report, and the degraded results are as specified.
LoadedPipelineTerminatesWithReport ==
    (pc = "main_scrape") ~> (PipelineCompleted /\ DegradedAsSpecified)

\* With the classes loaded, the pipeline completed though the Wikipedia
\* request and all five backend calls failed.
LoadedPipelineAllFailed ==
    /\ PipelineCompleted
    /\ scrArgs[2] = "exception"
    /\ FailedDims = Dims
    /\ exitCode = 0

\* The run of main.py has ended.
ProcessEnded == pc \in {"exit", "crashed"}

\* main() refused the input: no API key, or an empty query.
InputRejected == pc = "exit" /\ query = Null /\ exitCode = 1

\* C10: a run of main.py that has ended, unless its input was refused,
\* has been through scrape, analyze and generate and has produced the
\* report, whatever sources and dimensions failed, with the degraded
\* results as specified.
C10_RunEndsWithReport ==
    ProcessEnded => InputRejected \/ (PipelineCompleted /\ DegradedAsSpecified)

\* None, or an empty str, list or dict.
NullOrEmpty(v) ==
    \/ v.k = "null"
    \/ v.k = "str" /\ v.s = ""
    \/ v.k = "list" /\ v.items = <<>>
    \/ v.k = "dict" /\ v.fields = <<>>

\* The record of the except branch: error set, analysis the status note.
ErrorShape(rec) ==
    /\ DictHas(rec, "error")
    /\ AnalysisOf(rec).k = "dict"
    /\ Keys(AnalysisOf(rec)) = {"status", "message"}
    /\ Keys(AnalysisOf(rec)) \cap Dims = {}

\* The record of the normal path: no error, every key of analysis one of
\* the five dimensions, every value neither None nor empty.
NormalShape(rec) ==
    /\ ~DictHas(rec, "error")
    /\ AnalysisOf(rec).k = "dict"
    /\ Keys(AnalysisOf(rec)) \subseteq Dims
    /\ \A i \in 1..Len(AnalysisOf(rec).fields) :
          ~NullOrEmpty(AnalysisOf(rec).fields[i].val)

\* C13: every record analyze returns has one of the two shapes: the error
\* record with the status note, or a record without error whose analysis
\* holds only dimensions, none with a null or empty value.
C13_RecordHasOneOfTwoShapes ==
    (AnalyzeDone /\ anOut.kind = "returned") =>
        /\ anOut.value.k = "dict"
        /\ ErrorShape(anOut.value) \/ NormalShape(anOut.value)
        /\ ~(ErrorShape(anOut.value) /\ NormalShape(anOut.value))

\* A record of the normal path in which one call failed, one answered with
\* an empty object, and other dimensions were stored.
C13_Witness ==
    /\ AnalyzeDone
    /\ anOut.kind = "returned"
    /\ NormalShape(anOut.value)
    /\ Len(calls) = 5
    /\ calls[1].ok /\ calls[1].text = TextEmptyObject
    /\ ~calls[2].ok
    /\ Keys(AnalysisOf(anOut.value)) = {"industry", "swot", "predictions"}

\* The error record was returned: the context could not be built.
C13_WitnessError ==
    /\ AnalyzeDone
    /\ anOut.kind = "returned"
    /\ ErrorShape(anOut.value)

\* The labels of the `## ...` headers of a report, in the order they appear.
H2Labels(report) ==
    LET hs == SelectSeq(report, LAMBDA p : p.kind = "h2")
    IN  [i \in 1..Len(hs) |-> hs[i].label]

\* The dimensions present in the analysis of a record, in the fixed order.
PresentInOrder(ins) ==
    SelectSeq(DimOrder, LAMBDA dim : Present(ins, dim))

\* generate took its normal path: no builder raised.
NormalPath == GenerateCalled /\ ReportBody(genArgs[1], genArgs[2], 0).ok

\* C12: a report of the normal path begins with the header, goes on with
\* the executive summary, then holds one section header for each dimension
\* present in analysis, in the order financial, history, industry, swot,
\* predictions whatever the order of the keys of analysis, and ends with
\* the footer.
C12_PartsInFixedOrder ==
    NormalPath =>
        LET rep == genOut.value
            hdr == _build_header(genArgs[1], genArgs[2], clock - 2).value
            sum == _build_executive_summary(genArgs[2]).value
            pres == PresentInOrder(genArgs[2])
        IN  /\ genOut.kind = "returned"
            /\ Len(rep) >= Len(hdr) + Len(sum) + Len(_build_footer)
            /\ SubSeq(rep, 1, Len(hdr)) = hdr
            /\ SubSeq(rep, Len(hdr) + 1, Len(hdr) + Len(sum)) = sum
            /\ SubSeq(rep, Len(rep) - Len(_build_footer) + 1, Len(rep)) = _build_footer
            /\ H2Labels(rep) =
                  <<"Executive Summary">> \o
                  [i \in 1..Len(pres) |-> SectionTitle(pres[i])]

\* A report for an analysis that holds all five dimensions, inserted in the
\* reverse order.
C12_Witness ==
    /\ NormalPath
    /\ Len(PresentInOrder(genArgs[2])) = 5
    /\ AnalysisOf(genArgs[2]).fields[1].key = "predictions"
    /\ AnalysisOf(genArgs[2]).fields[5].key = "financial"
    /\ Len(H2Labels(genOut.value)) = 6

\* The second of two analyze calls on one argument has ended.
SecondCallDone == pc = "analyze_again" /\ AnalyzeDone

\* C11: two calls of analyze on the same CollectionResult, the backend
\* answering the same prompt in the same way, return two records with the
\* same set of analysis keys; and all along the second call, each
\* dimension already handled is a key exactly if it is one of the first
\* record.
C11_SameKeysOnSecondCall ==
    (pc = "analyze_again" /\ IsCollectionResult(anData)) =>
        /\ first.out.kind = "returned"
        /\ \A i \in 1..Len(calls) :
              DictHas(AnalysisOf(insights), calls[i].dim)
                 <=> DictHas(AnalysisOf(first.out.value), calls[i].dim)
        /\ AnalyzeDone =>
              /\ anOut.kind = "returned"
              /\ Keys(AnalysisOf(anOut.value)) = Keys(AnalysisOf(first.out.value))

\* Two calls on a CollectionResult have returned; in each the financial
\* call failed and the history call answered, two dimensions were left
\* out, and the two records differ (in their timestamps).
C11_Witness ==
    /\ SecondCallDone
    /\ IsCollectionResult(anData)
    /\ Len(first.calls) = 5 /\ Len(calls) = 5
    /\ ~first.calls[1].ok /\ first.calls[2].ok
    /\ ~calls[1].ok /\ calls[2].ok
    /\ Cardinality(Keys(AnalysisOf(anOut.value))) = 3
    /\ anOut.value # first.out.value

====
